---- MODULE Spec2Model ----
(***************************************************************************)
(* Model of the job-scraping pipeline of main.py and of the relevance      *)
(* scorer of docsim.py.                                                    *)
(*                                                                         *)
(* Spec      one call of extractJobs(urls, plavras): the two thread pools, *)
(*           the listing fetches, the entry extractions with their detail  *)
(*           GETs, and the collection of the results by the calling thread.*)
(* FieldsSpec the same call, the listing entries taking every combination  *)
(*           of present and missing elements.                              *)
(* PoolSpec  the same call on one URL more than the first pool has workers.*)
(* LiveSpec  Spec with every enabled step eventually taken.                *)
(* RateSpec  calls of rate_text and rate_job on bounded keyword lists and  *)
(*           texts.                                                        *)
(* CaseSpec  the same calls over an alphabet with a dotless i.             *)
(* DescSpec  one call of extractDescription.                               *)
(* TimeSpec  one call of main up to its call of extractJobs: the time      *)
(*           filter and the search URLs.                                   *)
(*                                                                         *)
(* Texts are sequences of one-character strings.  A float score is kept as *)
(* the exact fraction <<numerator, denominator>>.                          *)
(***************************************************************************)
EXTENDS Integers, Sequences, FiniteSets, TLC

\* ------------------------------------------------------------------ bounds
MaxUrls == 2        \* search URLs in one call
MaxEntries == 2     \* listing entries found in one call, over all pages
MaxTextLen == 3     \* characters of a scored text (RateSpec)
MaxKeywords == 2    \* keywords of a keyword list (RateSpec)

\* ------------------------------------------------------- program constants
max_workers == 10   \* ThreadPoolExecutor(max_workers=10), phase 1
ScaleMax == 5       \* scaled_rating = normalized_rating * 5

\* --------------------------------------------------------------- sequences
RECURSIVE SeqsUpTo(_, _)
SeqsUpTo(S, n) ==
  IF n = 0 THEN {<<>>}
  ELSE LET shorter == SeqsUpTo(S, n - 1)
       IN shorter \cup {Append(s, x) : s \in {t \in shorter : Len(t) = n - 1}, x \in S}

RECURSIVE SumSeq(_)
SumSeq(s) == IF s = <<>> THEN 0 ELSE Head(s) + SumSeq(Tail(s))

\* ------------------------------------------------------------------- texts
\* The characters of the modelled texts: two letters, one of them in both
\* cases, and the blank (the only character that is not a word character).
Chars == {"a", "A", "b", " "}

\* The letter dotless i (U+0131), written by its code point.  Python gives
\* its upper() as 'I', and 'I'.lower() is 'i', another letter.
DotlessI == "U+0131"

\* str.lower(), character by character
ToLower(c) ==
  IF c = "A" THEN "a" ELSE IF c = "B" THEN "b" ELSE IF c = "I" THEN "i" ELSE c

lower(text) == [i \in 1..Len(text) |-> ToLower(text[i])]

\* \w of the regular expression
IsWordChar(c) == c # " "

\* re.findall(r'\b\w+\b', text): the maximal runs of word characters, in order
RECURSIVE findall(_, _, _)
findall(text, i, cur) ==
  IF i > Len(text)
  THEN IF cur = <<>> THEN <<>> ELSE <<cur>>
  ELSE IF IsWordChar(text[i])
       THEN findall(text, i + 1, Append(cur, text[i]))
       ELSE (IF cur = <<>> THEN <<>> ELSE <<cur>>) \o findall(text, i + 1, <<>>)

\* str.strip(): leading and trailing blanks removed
RECURSIVE lstrip(_)
lstrip(text) ==
  IF text # <<>> /\ Head(text) = " " THEN lstrip(Tail(text)) ELSE text

RECURSIVE rstrip(_)
rstrip(text) ==
  IF text # <<>> /\ text[Len(text)] = " "
  THEN rstrip(SubSeq(text, 1, Len(text) - 1)) ELSE text

\* .lstrip() written for .strip(): trailing blanks kept
strip_left_only(text) == lstrip(text)

strip(text) == rstrip(lstrip(text))

\* ------------------------------------------------------ docsim.py: rate_text
\* Counter(words)[w]
word_count(words, w) == Cardinality({i \in 1..Len(words) : words[i] = w})

\* word.lower() left out: the keyword is looked up as written
cumulative_frequency_as_written(words, plavra) ==
  SumSeq([k \in 1..Len(plavra) |-> word_count(words, plavra[k])])

\* sum(word_count[word.lower()] for word in plavra)
cumulative_frequency(words, plavra) ==
  SumSeq([k \in 1..Len(plavra) |-> word_count(words, lower(plavra[k]))])

\* the else branch of line 34 giving 1 in place of 0
rate_text_empty_is_one(plavra, text) ==
  LET words == findall(lower(text), 1, <<>>)
  IN IF Len(words) # 0
     THEN <<cumulative_frequency(words, plavra) * ScaleMax, Len(words)>>
     ELSE <<ScaleMax, 1>>

\* the float cum / n * 5 as the fraction <<5 * cum, n>>; 0 when n = 0
rate_text(plavra, text) ==
  LET words == findall(lower(text), 1, <<>>)
      cum == cumulative_frequency(words, plavra)
      max_cumulative_frequency == Len(words)
  IN IF max_cumulative_frequency # 0
     THEN <<cum * ScaleMax, max_cumulative_frequency>>
     ELSE <<0, 1>>

\* round(x) of a float x >= 0 given as a fraction: the nearest integer, an
\* exact half going to the even neighbour
round(x) ==
  LET q == x[1] \div x[2]
      r == x[1] % x[2]
  IN IF 2 * r < x[2] THEN q
     ELSE IF 2 * r > x[2] THEN q + 1
     ELSE IF q % 2 = 0 THEN q ELSE q + 1

\* --------------------------------------------------------- main.py: rate_job
rate_job(job_description, plavras_) ==
  IF plavras_ = <<>> THEN 0 ELSE round(rate_text(plavras_, job_description))

\* ------------------------------------------------------------ the pipeline
VARIABLES
  urls,         \* extractJobs argument: the search URLs, here 1..n
  plavras,      \* extractJobs argument: the keyword list
  pc,           \* position of the thread that called extractJobs
  listTask,     \* phase 1: state of get_job_cards(url), per URL position
  pages,        \* phase 1: the cards get_job_cards(url) returned, per URL
  cards,        \* the flattened cards
  total_cards,  \* <<>> while the local is unbound, <<n>> once assigned
  infoTask,     \* phase 2: state of get_job_info(card, plavras), per card
  job_data,     \* phase 2: <<record>> once get_job_info returned, per card
  results,      \* the local list results
  ret,          \* what the call gave its caller
  scorer,       \* RateSpec: one keyword list and text, with what was computed
  detail,       \* DescSpec: one call of extractDescription(url) on its own
  request       \* TimeSpec: one call of main(user_params), up to extractJobs

vars == <<urls, plavras, pc, listTask, pages, cards, total_cards, infoTask,
          job_data, results, ret, scorer, detail, request>>

pipelineVars == <<urls, plavras, pc, listTask, pages, cards, total_cards,
                  infoTask, job_data, results, ret>>

\* A listing entry (one <li> of a results page): which elements it holds.
\* id = <<URL position, position in the page>> stands for its posting URL.
CardShapes ==
  [title : BOOLEAN, href : BOOLEAN, company : BOOLEAN, location : BOOLEAN,
   time : BOOLEAN]

\* The shapes of Spec: a complete entry, one with none of the optional
\* elements, one without its title and one without its link.
CoreShapes ==
  {sh \in CardShapes :
     \/ sh.title /\ sh.href /\ sh.company = sh.location /\ sh.location = sh.time
     \/ sh.title # sh.href /\ sh.company /\ sh.location /\ sh.time}

Card(u, k, shape) ==
  [id |-> <<u, k>>, title |-> shape.title, href |-> shape.href,
   company |-> shape.company, location |-> shape.location, time |-> shape.time]

\* Texts of the description container of a detail page, before .strip()
DescTexts == {<<"a">>, <<" ", "a", " ", "b">>}

\* 'no description specified'
NoDescription ==
  <<"n", "o", " ", "d", "e", "s", "c", "r", "i", "p", "t", "i", "o", "n", " ",
    "s", "p", "e", "c", "i", "f", "i", "e", "d">>

\* What requests.get(jobURL) and the parse give extractDescription: a failure
\* (exception), or a page with or without the description container.
DetailResponses ==
  {[ok |-> FALSE, div |-> <<>>], [ok |-> TRUE, div |-> <<>>]}
    \cup {[ok |-> TRUE, div |-> <<t>>] : t \in DescTexts}

\* Keyword lists of the modelled calls of extractJobs
PipelineKeywords == {<<>>, <<<<"a">>>>, <<<<"A">>, <<"a">>>>}

NoReturn == [kind |-> "none", records |-> <<>>, totalCount |-> 0, error |-> ""]

Returned(recs, n) ==
  [kind |-> "return", records |-> recs, totalCount |-> n, error |-> ""]

Raised(e) == [kind |-> "raise", records |-> <<>>, totalCount |-> 0, error |-> e]

IdleScorer == [pc |-> "idle", plavra |-> <<>>, text |-> <<>>,
               score |-> <<>>, rating |-> <<>>]

\* No call of main is under way.
IdleRequest == [pc |-> "idle", titles |-> <<>>, time_period |-> "",
                location |-> <<>>, TPeriod |-> [kind |-> "none", value |-> <<>>],
                urls |-> <<>>]

\* No call of extractDescription on its own is under way.
IdleDetail == [pc |-> "idle", resp |-> [ok |-> FALSE, div |-> <<>>], result |-> <<>>]

\* --------------------------------------------- main.py: extractDescription
\* The result dict as <<>> ({}: no "description" key) or <<description>>.
extractDescription(resp) ==
  IF ~resp.ok THEN <<>>
  ELSE IF resp.div # <<>> THEN <<strip(resp.div[1])>> ELSE <<NoDescription>>

\* --------------------------------------------------- main.py: get_job_info
\* card.find("h3", ...).text and card.find("a")['href'] raise when the element
\* is missing; nothing catches it inside get_job_info.
RequiredFound(card) == card.title /\ card.href

\* dayPosted is a str or the bool False: kept apart by a type tag
PyStr(s) == <<"str", s>>
PyFalse == <<"bool", "False">>

JobRecord(card, description, kw) ==
  [jobTitle    |-> "title text",
   companyName |-> IF card.company THEN "company text" ELSE "Not specified",
   dayPosted   |-> IF card.time THEN PyStr("time text") ELSE PyFalse,
   jobURL      |-> card.id,
   rating      |-> rate_job(description, kw),
   location    |-> IF card.location THEN "location text" ELSE "location not given",
   jobDesc     |-> description]

\* ---------------------------------------------------- main.py: extractJobs
\* line 193 left out: every page goes on as one entry, a list of elements on
\* which no find() succeeds
PagesAsCards(pgs) ==
  [u \in 1..Len(pgs) |->
     [id |-> <<u, 0>>, title |-> FALSE, href |-> FALSE, company |-> FALSE,
      location |-> FALSE, time |-> FALSE]]

\* the pages joined in the opposite order, the last URL's page first
RECURSIVE FlattenLastFirst(_)
FlattenLastFirst(pgs) ==
  IF pgs = <<>> THEN <<>> ELSE FlattenLastFirst(Tail(pgs)) \o Head(pgs)

\* [card for card2 in cards for card in card2]
RECURSIVE Flatten(_)
Flatten(pgs) == IF pgs = <<>> THEN <<>> ELSE Head(pgs) \o Flatten(Tail(pgs))

\* len(cards) taken before line 193 flattens: the number of pages
CountPages(pgs) == Len(pgs)

\* total_cards = len(cards), taken after the flattening
CountCards(pgs) == Len(Flatten(pgs))

\* line 216 returning the number of records in place of total_cards
ReturnLenResults(res, total) == Returned(res, Len(res))

\* return [results, total_cards], line 216: reading the local total_cards
\* while it is unbound raises UnboundLocalError
ReturnPair(res, total) ==
  IF total = <<>> THEN Raised("UnboundLocalError") ELSE Returned(res, total[1])

Finished(task) == task \in {"done", "raised"}

\* the pool left without waiting for its tasks
PoolNotAwaited(tasks) == TRUE

\* The end of a with ThreadPoolExecutor block (shutdown(wait=True)), and
\* list() over the map's results: every task has returned or raised.
PoolShutDown(tasks) == \A i \in DOMAIN tasks : Finished(tasks[i])

\* a second pool of one worker
Phase2WorkersOne(cs) == 1

\* ThreadPoolExecutor(max_workers=len(cards)), line 204
Phase2Workers(cs) == Len(cs)

\* each entry's failure caught on its own: the records of the entries that
\* were extracted, in the order of the entries
RECURSIVE RecordsOfDone(_, _)
RecordsOfDone(tasks, data) ==
  IF tasks = <<>> THEN <<>>
  ELSE (IF Head(tasks) = "done" THEN Head(data) ELSE <<>>)
         \o RecordsOfDone(Tail(tasks), Tail(data))

\* job_data_list = list(job_data), line 207, and the loop of lines 209-210:
\* what is appended to results.  The list is built whole or, when a task
\* raised, not at all.
job_data_list(tasks, data) ==
  IF \E i \in DOMAIN tasks : tasks[i] = "raised"
  THEN <<>>
  ELSE [i \in 1..Len(tasks) |-> data[i][1]]

Running(tasks) == {i \in DOMAIN tasks : tasks[i] = "running"}

\* The pool's work queue is first in, first out.
NextQueued(tasks, i) ==
  /\ tasks[i] = "queued"
  /\ \A j \in DOMAIN tasks : j < i => tasks[j] # "queued"

Init ==
  /\ urls \in {[u \in 1..n |-> u] : n \in 0..MaxUrls}
  /\ plavras \in PipelineKeywords
  /\ pc = "start"
  /\ listTask = <<>>
  /\ pages = <<>>
  /\ cards = <<>>
  /\ total_cards = <<>>
  /\ infoTask = <<>>
  /\ job_data = <<>>
  /\ results = <<>>
  /\ ret = NoReturn
  /\ scorer = IdleScorer
  /\ detail = IdleDetail
  /\ request = IdleRequest

\* lines 185-190: results = []; executor.map(get_job_cards, urls) submits one
\* task per URL, and the with block then waits for all of them.
SubmitListings ==
  /\ pc = "start"
  /\ pc' = "phase1"
  /\ listTask' = [u \in 1..Len(urls) |-> "queued"]
  /\ pages' = [u \in 1..Len(urls) |-> <<>>]
  /\ results' = <<>>
  /\ UNCHANGED <<urls, plavras, cards, total_cards, infoTask, job_data, ret, scorer, detail, request>>

\* A worker of the first pool takes get_job_cards(url) and sends its GET.
StartListing(u) ==
  /\ pc = "phase1"
  /\ NextQueued(listTask, u)
  /\ Cardinality(Running(listTask)) < max_workers
  /\ listTask' = [listTask EXCEPT ![u] = "running"]
  /\ UNCHANGED <<urls, plavras, pc, pages, cards, total_cards, infoTask,
                 job_data, results, ret, scorer, detail, request>>

EntriesFound == SumSeq([u \in 1..Len(pages) |-> Len(pages[u])])

\* get_job_cards, lines 149-169, when the GET answers (any status): the <li>
\* elements found, possibly none, each of one of the given shapes.
ListingAnswersFrom(u, Shapes) ==
  /\ pc = "phase1"
  /\ listTask[u] = "running"
  /\ \E n \in 0..(MaxEntries - EntriesFound) :
       \E shapes \in [1..n -> Shapes] :
         pages' = [pages EXCEPT ![u] = [k \in 1..n |-> Card(u, k, shapes[k])]]
  /\ listTask' = [listTask EXCEPT ![u] = "done"]
  /\ UNCHANGED <<urls, plavras, pc, cards, total_cards, infoTask, job_data,
                 results, ret, scorer, detail, request>>

ListingAnswers(u) == ListingAnswersFrom(u, CoreShapes)

ListingAnswersAny(u) == ListingAnswersFrom(u, CardShapes)

\* get_job_cards, line 149, when requests.get raises: nothing in get_job_cards
\* catches it, so the task ends with the exception.
ListingFails(u) ==
  /\ pc = "phase1"
  /\ listTask[u] = "running"
  /\ listTask' = [listTask EXCEPT ![u] = "raised"]
  /\ UNCHANGED <<urls, plavras, pc, pages, cards, total_cards, infoTask,
                 job_data, results, ret, scorer, detail, request>>

\* lines 190-205 and 212-216, once the first pool has shut down.
\* list(cards) re-raises the exception of a failed task; the bare except
\* swallows it and line 216 then reads total_cards, which was never assigned.
CollectListings ==
  /\ pc = "phase1"
  /\ PoolShutDown(listTask)
  /\ IF \E u \in DOMAIN listTask : listTask[u] = "raised"
     THEN /\ ret' = ReturnPair(results, total_cards)
          /\ pc' = IF ret'.kind = "raise" THEN "raised" ELSE "done"
          /\ UNCHANGED <<cards, total_cards, infoTask, job_data>>
     ELSE /\ cards' = Flatten(pages)
          /\ total_cards' = <<CountCards(pages)>>
          /\ IF Len(cards') = 0
             THEN /\ pc' = "done"
                  /\ ret' = Returned(results, 0)
                  /\ UNCHANGED <<infoTask, job_data>>
             ELSE /\ pc' = "phase2"
                  /\ infoTask' = [i \in 1..Len(cards') |-> "queued"]
                  /\ job_data' = [i \in 1..Len(cards') |-> <<>>]
                  /\ ret' = ret
  /\ UNCHANGED <<urls, plavras, listTask, pages, results, scorer, detail, request>>

\* A worker of the second pool (max_workers = len(cards)) takes
\* get_job_info(card, plavras): lines 101-108 and 230-235, up to the detail GET.
StartInfo(i) ==
  /\ pc = "phase2"
  /\ NextQueued(infoTask, i)
  /\ Cardinality(Running(infoTask)) < Phase2Workers(cards)
  /\ infoTask' = [infoTask EXCEPT ![i] =
                    IF RequiredFound(cards[i]) THEN "running" ELSE "raised"]
  /\ UNCHANGED <<urls, plavras, pc, listTask, pages, cards, total_cards,
                 job_data, results, ret, scorer, detail, request>>

\* The detail GET ends: extractDescription, lines 235-263, then get_job_info,
\* lines 110-134.  jobDesc['description'] raises KeyError on the empty dict.
FinishInfo(i) ==
  /\ pc = "phase2"
  /\ infoTask[i] = "running"
  /\ \E resp \in DetailResponses :
       LET jobDesc == extractDescription(resp)
       IN IF jobDesc = <<>>
          THEN /\ infoTask' = [infoTask EXCEPT ![i] = "raised"]
               /\ job_data' = job_data
          ELSE /\ infoTask' = [infoTask EXCEPT ![i] = "done"]
               /\ job_data' = [job_data EXCEPT ![i] =
                                 <<JobRecord(cards[i], jobDesc[1], plavras)>>]
  /\ UNCHANGED <<urls, plavras, pc, listTask, pages, cards, total_cards,
                 results, ret, scorer, detail, request>>

\* lines 205-216, once the second pool has shut down.  list(job_data) re-raises
\* the exception of the first failed task before job_data_list is bound, so
\* nothing is appended; the bare except swallows it.
CollectJobs ==
  /\ pc = "phase2"
  /\ PoolShutDown(infoTask)
  /\ results' = results \o job_data_list(infoTask, job_data)
  /\ ret' = ReturnPair(results', total_cards)
  /\ pc' = IF ret'.kind = "raise" THEN "raised" ELSE "done"
  /\ UNCHANGED <<urls, plavras, listTask, pages, cards, total_cards, infoTask,
                 job_data, scorer, detail, request>>

Next ==
  \/ SubmitListings
  \/ \E u \in DOMAIN listTask : StartListing(u)
  \/ \E u \in DOMAIN listTask : ListingAnswers(u)
  \/ \E u \in DOMAIN listTask : ListingFails(u)
  \/ CollectListings
  \/ \E i \in DOMAIN infoTask : StartInfo(i)
  \/ \E i \in DOMAIN infoTask : FinishInfo(i)
  \/ CollectJobs

Spec == Init /\ [][Next]_vars

\* A call with one URL more than the first pool has workers, every listing
\* entry complete and every listing fetch answered.
CompleteShapes == {sh \in CardShapes : \A f \in DOMAIN sh : sh[f]}

ListingAnswersComplete(u) == ListingAnswersFrom(u, CompleteShapes)

PoolInit ==
  /\ urls = [u \in 1..(max_workers + 1) |-> u]
  /\ plavras = << <<"a">> >>
  /\ pc = "start"
  /\ listTask = <<>>
  /\ pages = <<>>
  /\ cards = <<>>
  /\ total_cards = <<>>
  /\ infoTask = <<>>
  /\ job_data = <<>>
  /\ results = <<>>
  /\ ret = NoReturn
  /\ scorer = IdleScorer
  /\ detail = IdleDetail
  /\ request = IdleRequest

PoolNext ==
  \/ SubmitListings
  \/ \E u \in DOMAIN listTask : StartListing(u)
  \/ \E u \in DOMAIN listTask : ListingAnswersComplete(u)
  \/ CollectListings
  \/ \E i \in DOMAIN infoTask : StartInfo(i)
  \/ \E i \in DOMAIN infoTask : FinishInfo(i)
  \/ CollectJobs

PoolSpec == PoolInit /\ [][PoolNext]_vars

\* The same call with listing entries of every shape.
NextFields ==
  \/ SubmitListings
  \/ \E u \in DOMAIN listTask : StartListing(u)
  \/ \E u \in DOMAIN listTask : ListingAnswersAny(u)
  \/ \E u \in DOMAIN listTask : ListingFails(u)
  \/ CollectListings
  \/ \E i \in DOMAIN infoTask : StartInfo(i)
  \/ \E i \in DOMAIN infoTask : FinishInfo(i)
  \/ CollectJobs

FieldsSpec == Init /\ [][NextFields]_vars

\* ------------------------------------------------------------- the scorer
\* Keywords of the scored keyword lists: single words in both cases, a word
\* of two letters and a phrase of two words.
Keywords == {<<"a">>, <<"A">>, <<"b">>, <<"a", "b">>, <<"a", " ", "b">>}

KeywordLists == SeqsUpTo(Keywords, MaxKeywords)

Texts == SeqsUpTo(Chars, MaxTextLen)

ScorerInit(KwLists, Txts) ==
  /\ urls = <<>>
  /\ plavras = <<>>
  /\ pc = "idle"
  /\ listTask = <<>>
  /\ pages = <<>>
  /\ cards = <<>>
  /\ total_cards = <<>>
  /\ infoTask = <<>>
  /\ job_data = <<>>
  /\ results = <<>>
  /\ ret = NoReturn
  /\ detail = IdleDetail
  /\ request = IdleRequest
  /\ \E kw \in KwLists, t \in Txts :
       scorer = [pc |-> "init", plavra |-> kw, text |-> t,
                 score |-> <<>>, rating |-> <<>>]

RateInit == ScorerInit(KeywordLists, Texts)

\* docsim.rate_text(plavra, text) is called and returns its score.
CallRateText ==
  /\ scorer.pc = "init"
  /\ scorer.score = <<>>
  /\ scorer' = [scorer EXCEPT !.score = <<rate_text(scorer.plavra, scorer.text)>>]
  /\ UNCHANGED <<pipelineVars, detail, request>>

\* rate_job(text, plavra) is called and returns its rating.
CallRateJob ==
  /\ scorer.pc = "init"
  /\ scorer.rating = <<>>
  /\ scorer' = [scorer EXCEPT !.rating = <<rate_job(scorer.text, scorer.plavra)>>]
  /\ UNCHANGED <<pipelineVars, detail, request>>

RateNext == CallRateText \/ CallRateJob

RateSpec == RateInit /\ [][RateNext]_vars

\* The scorer on texts and keywords that hold a letter whose two cases do not
\* lower-case to the same character.
CaseChars == {"a", "A", DotlessI, " "}

CaseKeywords == {<<"a">>, <<"A">>, <<DotlessI>>}

CaseInit ==
  ScorerInit(SeqsUpTo(CaseKeywords, MaxKeywords), SeqsUpTo(CaseChars, MaxTextLen))

CaseSpec == CaseInit /\ [][RateNext]_vars

\* ------------------------------------------- extractDescription on its own
\* What the GET of a posting URL and the parse can give, the container's text
\* being any text of up to MaxTextLen characters.
AnyDetailResponses ==
  {[ok |-> FALSE, div |-> <<>>], [ok |-> TRUE, div |-> <<>>]}
    \cup {[ok |-> TRUE, div |-> <<t>>] : t \in Texts}

DescInit ==
  /\ urls = <<>>
  /\ plavras = <<>>
  /\ pc = "idle"
  /\ listTask = <<>>
  /\ pages = <<>>
  /\ cards = <<>>
  /\ total_cards = <<>>
  /\ infoTask = <<>>
  /\ job_data = <<>>
  /\ results = <<>>
  /\ ret = NoReturn
  /\ scorer = IdleScorer
  /\ detail = [pc |-> "called", resp |-> [ok |-> FALSE, div |-> <<>>],
               result |-> <<>>]
  /\ request = IdleRequest

\* lines 230-235: result = {}, the first pause, and the GET is sent.
DescriptionGet ==
  /\ detail.pc = "called"
  /\ detail' = [detail EXCEPT !.pc = "getting"]
  /\ UNCHANGED <<pipelineVars, scorer, request>>

\* lines 235-237: the GET ends, with an exception (of requests.get, or of the
\* parse that follows) on its way to the except clause, or with a page.
DescriptionAnswer ==
  /\ detail.pc = "getting"
  /\ \E resp \in AnyDetailResponses :
       detail' = [detail EXCEPT !.pc = "answered", !.resp = resp]
  /\ UNCHANGED <<pipelineVars, scorer, request>>

\* lines 239-263: the container is looked up and result is returned.
DescriptionReturn ==
  /\ detail.pc = "answered"
  /\ detail' = [detail EXCEPT !.pc = "returned",
                              !.result = extractDescription(detail.resp)]
  /\ UNCHANGED <<pipelineVars, scorer, request>>

DescNext == DescriptionGet \/ DescriptionAnswer \/ DescriptionReturn

DescSpec == DescInit /\ [][DescNext]_vars

\* ---------------------------------------- main.py: create_time_param, main
\* str.replace(old, new) for a one-character old
RECURSIVE replace(_, _, _)
replace(str, old, new) ==
  IF str = <<>> THEN <<>>
  ELSE (IF Head(str) = old THEN new ELSE <<Head(str)>>)
         \o replace(Tail(str), old, new)

\* .replace(" ", "%20").replace(",", "%2C")
PercentEncode(str) ==
  replace(replace(str, " ", <<"%", "2", "0">>), ",", <<"%", "2", "C">>)

\* create_time_param(time): the four branches assign TPeriod, as a sequence
\* of URL pieces (<<>> is ""); no branch is taken for any other string and
\* return TPeriod then reads an unbound local.
create_time_param(time) ==
  IF time = "past 24 hours" THEN [kind |-> "return", value |-> <<"&f_TPR=r86400">>]
  ELSE IF time = "past week" THEN [kind |-> "return", value |-> <<"&f_TPR=r604800">>]
  ELSE IF time = "past month" THEN [kind |-> "return", value |-> <<"&f_TPR=r2592000">>]
  ELSE IF time = "any time" THEN [kind |-> "return", value |-> <<>>]
  ELSE [kind |-> "raise", value |-> <<"UnboundLocalError">>]

\* the f-string of line 403
SearchUrl(keywords, location, time_period) ==
  <<"https://www.linkedin.com/jobs/search?keywords=">> \o keywords
    \o <<"&location=">> \o location \o time_period
    \o <<"&position=1&pageNum=0">>

RequestTitles ==
  {<<"d", "e", "v">>, <<"q", "a", " ", "d", "e", "v">>, <<"c", ",", " ", "g", "o">>}

RequestLocations == {<<"u", "k">>, <<"n", "y", ",", " ", "u", "s">>}

RecognizedTimes == {"past 24 hours", "past week", "past month", "any time"}

RequestTimes == RecognizedTimes \cup {"yesterday", "Past Week", ""}

TimeInit ==
  /\ urls = <<>>
  /\ plavras = <<>>
  /\ pc = "idle"
  /\ listTask = <<>>
  /\ pages = <<>>
  /\ cards = <<>>
  /\ total_cards = <<>>
  /\ infoTask = <<>>
  /\ job_data = <<>>
  /\ results = <<>>
  /\ ret = NoReturn
  /\ scorer = IdleScorer
  /\ detail = IdleDetail
  /\ \E ts \in SeqsUpTo(RequestTitles, MaxUrls), t \in RequestTimes,
        l \in RequestLocations :
       request = [pc |-> "called", titles |-> ts, time_period |-> t,
                  location |-> l, TPeriod |-> [kind |-> "none", value |-> <<>>],
                  urls |-> <<>>]

\* line 399: time_period = create_time_param(time_period); an exception
\* leaves main.
CallCreateTimeParam ==
  /\ request.pc = "called"
  /\ LET tp == create_time_param(request.time_period)
     IN request' = [request EXCEPT
                      !.TPeriod = tp,
                      !.pc = IF tp.kind = "raise" THEN "raised" ELSE "time_param"]
  /\ UNCHANGED <<pipelineVars, scorer, detail>>

\* lines 400-405: the location and each title are encoded, the URLs are
\* built and extractJobs(urls, plavra) is called.
BuildUrls ==
  /\ request.pc = "time_param"
  /\ LET location == PercentEncode(request.location)
     IN request' = [request EXCEPT
                      !.pc = "extractJobs",
                      !.urls = [t \in 1..Len(request.titles) |->
                                  SearchUrl(PercentEncode(request.titles[t]),
                                            location, request.TPeriod.value)]]
  /\ UNCHANGED <<pipelineVars, scorer, detail>>

TimeNext == CallCreateTimeParam \/ BuildUrls

TimeSpec == TimeInit /\ [][TimeNext]_vars

\* ------------------------------------------------------------------ claims
Range(s) == {s[i] : i \in 1..Len(s)}

CallEnded == pc \in {"done", "raised"}

Phase1Complete ==
  /\ pc \notin {"start", "idle"}
  /\ \A u \in DOMAIN listTask : listTask[u] = "done"

\* The entry's own extraction fails on a required element (title or link).
LacksRequired(i) == ~RequiredFound(cards[i])

\* The entry's detail fetch failed: extractDescription gave the empty dict.
DetailFailed(i) == RequiredFound(cards[i]) /\ infoTask[i] = "raised"

\* The record get_job_info is to build for entry i, read off the card.
FieldsAsDocumented(r, i) ==
  /\ r.jobURL = cards[i].id
  /\ r.companyName = (IF cards[i].company THEN "company text" ELSE "Not specified")
  /\ r.location = (IF cards[i].location THEN "location text" ELSE "location not given")
  /\ r.dayPosted = (IF cards[i].time THEN PyStr("time text") ELSE PyFalse)

\* The returned records are exactly those of the entries other than i.
OthersReturned(i) ==
  /\ ret.kind = "return"
  /\ Len(ret.records) = Len(cards) - 1
  /\ \A j \in DOMAIN infoTask : j # i => job_data[j][1] \in Range(ret.records)
  /\ \A r \in Range(ret.records) : r.jobURL # cards[i].id

\* C1: every call of extractJobs that returns gives a totalCount greater than
\* or equal to the number of returned records.
C1_TotalCountAtLeastRecords ==
  ret.kind = "return" => ret.totalCount >= Len(ret.records)

C1_Witness ==
  /\ ret.kind = "return"
  /\ Len(ret.records) >= 2
  /\ ret.totalCount = Len(ret.records)

\* C2: when exactly one entry lacks a required field and every other entry is
\* extracted, the returned records are exactly the records of the others.
C2_MissingFieldIsolated ==
  \A i \in DOMAIN infoTask :
    ( /\ pc = "done"
      /\ LacksRequired(i)
      /\ \A j \in DOMAIN infoTask : j # i => infoTask[j] = "done" )
    => OthersReturned(i)

\* C3: when the listing fetch of one URL fails and the others succeed, the
\* call returns, totalCount counts the entries of the other URLs, and those
\* entries went through phase 2.
C3_ListingFailureSwallowed ==
  \A u \in DOMAIN listTask :
    ( /\ CallEnded
      /\ listTask[u] = "raised"
      /\ \E v \in DOMAIN listTask : v # u
      /\ \A v \in DOMAIN listTask : v # u => listTask[v] = "done" )
    => /\ ret.kind = "return"
       /\ ret.totalCount = EntriesFound
       /\ Len(infoTask) = EntriesFound
       /\ \A i \in DOMAIN infoTask : Finished(infoTask[i])

\* C4: extractJobs never propagates an error to its caller: a call that has
\* ended has returned a pair (records, totalCount).
C4_NeverRaises == CallEnded => ret.kind = "return"

\* C5: when every listing fetch returns zero entries, extractJobs returns
\* ([], 0) and no entry extraction, so no detail GET, is ever submitted.
AllListingsEmpty ==
  /\ Phase1Complete
  /\ \A u \in DOMAIN pages : pages[u] = <<>>

C5_EmptyListingsShortCircuit ==
  AllListingsEmpty =>
    /\ infoTask = <<>>
    /\ pc \in {"phase1", "done"}
    /\ pc = "done" => ret = Returned(<<>>, 0)

C5_Witness ==
  /\ AllListingsEmpty
  /\ Len(urls) >= 2
  /\ pc = "done"
  /\ ret = Returned(<<>>, 0)

\* C6: an entry with title and link whose detail fetch succeeded has its
\* record in the returned records, a missing company, location or date holding
\* its default and a present one its parsed value.
C6_OptionalFieldsDefaulted ==
  \A i \in DOMAIN infoTask :
    (pc = "done" /\ RequiredFound(cards[i]) /\ infoTask[i] = "done")
    => \E r \in Range(ret.records) : FieldsAsDocumented(r, i)

\* What get_job_info itself returns for such an entry (the part of C6 that
\* holds): the record handed to the pool has the documented fields.
ExtractedRecordDefaults ==
  \A i \in DOMAIN infoTask :
    infoTask[i] = "done" =>
      /\ RequiredFound(cards[i])
      /\ job_data[i] # <<>>
      /\ FieldsAsDocumented(job_data[i][1], i)

\* C7: when the detail fetch of exactly one entry fails and every other entry
\* is extracted, exactly that entry is missing from the returned records.
C7_DetailFailureIsolated ==
  \A i \in DOMAIN infoTask :
    ( /\ pc = "done"
      /\ DetailFailed(i)
      /\ \A j \in DOMAIN infoTask : j # i => infoTask[j] = "done" )
    => OthersReturned(i)

\* C8: once phase 1 has completed with at least one entry, the call returns
\* and its totalCount is the sum, over the URLs, of the entries each listing
\* fetch returned, whatever the entry extractions of phase 2 did.
C8_TotalCountIsListingCount ==
  (CallEnded /\ Phase1Complete /\ EntriesFound >= 1)
    => ret.kind = "return" /\ ret.totalCount = EntriesFound

C8_Witness ==
  /\ pc = "done"
  /\ Phase1Complete
  /\ Len(urls) >= 2
  /\ EntriesFound >= 2
  /\ \E i \in DOMAIN infoTask : infoTask[i] = "raised"
  /\ \E i \in DOMAIN infoTask : infoTask[i] = "done"
  /\ ret.totalCount = EntriesFound

\* C9: the score rate_text returns lies in [0, 5]: as a fraction,
\* 0 <= numerator <= 5 * denominator.
C9_ScoreInRange ==
  scorer.score # <<>> =>
    LET x == scorer.score[1]
    IN x[2] > 0 /\ 0 <= x[1] /\ x[1] <= ScaleMax * x[2]

\* The raw score 5 * hits / tokens is within one half of n, and n is even
\* when it is exactly one half away.
NearestHalfEven(n, x) ==
  LET d == 2 * n * x[2] - 2 * x[1]
  IN /\ -x[2] <= d /\ d <= x[2]
     /\ (d = x[2] \/ d = -x[2]) => n % 2 = 0

\* C10: every rating rate_job produces is an integer in 0..5 and is the
\* nearest integer to the raw score, an exact half going to the even one.
C10_RatingRoundedInRange ==
  scorer.rating # <<>> =>
    /\ scorer.rating[1] \in 0..ScaleMax
    /\ NearestHalfEven(scorer.rating[1],
                       IF scorer.plavra = <<>> THEN <<0, 1>>
                       ELSE rate_text(scorer.plavra, scorer.text))

\* The rounding part of C10 alone, which holds.
RatingIsNearestHalfEven ==
  scorer.rating # <<>> =>
    NearestHalfEven(scorer.rating[1],
                    IF scorer.plavra = <<>> THEN <<0, 1>>
                    ELSE rate_text(scorer.plavra, scorer.text))

\* The text has no token: it is empty or holds blanks only.
NoTokens(text) == \A i \in 1..Len(text) : text[i] = " "

\* C11: the rating is 0 whenever the keyword list is empty and whenever the
\* text has no tokens; rate_text's score for a text without tokens is the
\* number 0, not a quotient by zero.
C11_ZeroForEmptyInputs ==
  /\ (scorer.rating # <<>> /\ (scorer.plavra = <<>> \/ NoTokens(scorer.text)))
       => scorer.rating[1] = 0
  /\ (scorer.score # <<>> /\ NoTokens(scorer.text))
       => scorer.score[1][1] = 0 /\ scorer.score[1][2] > 0

C11_Witness ==
  /\ scorer.rating = <<0>>
  /\ scorer.score # <<>>
  /\ scorer.plavra # <<>>
  /\ scorer.text # <<>>
  /\ NoTokens(scorer.text)

\* The letter in its other case: str.swapcase()
SwapCase(c) ==
  IF c = "a" THEN "A" ELSE IF c = "A" THEN "a"
  ELSE IF c = "b" THEN "B" ELSE IF c = "B" THEN "b"
  ELSE IF c = DotlessI THEN "I" ELSE IF c = "I" THEN "i"
  ELSE IF c = "i" THEN "I" ELSE c

\* Every respelling of s that differs from it in the case of letters taken
\* from Letters only
Respellings(s, Letters) ==
  {[i \in 1..Len(s) |-> IF i \in F THEN SwapCase(s[i]) ELSE s[i]] :
     F \in SUBSET {i \in 1..Len(s) : s[i] \in Letters}}

\* The score is the same for every respelling of the text and of each keyword.
ScoreKeptUnder(Letters) ==
  scorer.score # <<>> =>
    /\ \A t \in Respellings(scorer.text, Letters) :
         rate_text(scorer.plavra, t) = scorer.score[1]
    /\ \A k \in 1..Len(scorer.plavra) :
         \A w \in Respellings(scorer.plavra[k], Letters) :
           rate_text([scorer.plavra EXCEPT ![k] = w], scorer.text) = scorer.score[1]

AllLetters == {"a", "A", "b", "B", "i", "I", DotlessI}

\* The letters whose other case lower-cases to the same character
PairedLetters == {c \in AllLetters : ToLower(SwapCase(c)) = ToLower(c)}

IsTrimmed(t, s) ==
  /\ t = <<>> \/ (t[1] # " " /\ t[Len(t)] # " ")
  /\ \E i \in 1..(Len(s) + 1) :
       /\ i + Len(t) - 1 <= Len(s)
       /\ \A k \in 1..Len(s) :
            IF k >= i /\ k < i + Len(t) THEN s[k] = t[k - i + 1] ELSE s[k] = " "

\* C13: extractDescription always returns: the empty object after a network
\* or parse failure; otherwise an object whose description is the container's
\* trimmed text, or 'no description specified' when there is no container.
C13_DescriptionResult ==
  detail.pc = "returned" =>
    /\ ~detail.resp.ok => detail.result = <<>>
    /\ (detail.resp.ok /\ detail.resp.div = <<>>) => detail.result = <<NoDescription>>
    /\ (detail.resp.ok /\ detail.resp.div # <<>>) =>
         /\ Len(detail.result) = 1
         /\ IsTrimmed(detail.result[1], detail.resp.div[1])

C13_Witness ==
  /\ detail.pc = "returned"
  /\ detail.resp.ok
  /\ detail.resp.div = << <<" ", "a", " ">> >>
  /\ detail.result = << <<"a">> >>

\* C14: at most 10 listing fetches are in flight and at most totalCount entry
\* extractions; in phase 2 a queued extraction always finds a free worker, so
\* all of them can be in flight at once.
C14_WorkerCaps ==
  /\ Cardinality(Running(listTask)) <= max_workers
  /\ total_cards # <<>> => Cardinality(Running(infoTask)) <= total_cards[1]
  /\ \A i \in DOMAIN infoTask :
       (pc = "phase2" /\ NextQueued(infoTask, i)) => ENABLED StartInfo(i)

\* Every entry's extraction in flight at the same moment.
C14_Witness ==
  /\ pc = "phase2"
  /\ Len(urls) > max_workers
  /\ Len(cards) >= 2
  /\ \A i \in DOMAIN infoTask : infoTask[i] = "running"

\* The first pool saturated: 10 listing fetches in flight, another waiting.
Phase1Saturated ==
  /\ Cardinality(Running(listTask)) = max_workers
  /\ \E u \in DOMAIN listTask : listTask[u] = "queued"

\* C15: no entry extraction is dispatched, so none starts and no detail GET is
\* sent, before every listing fetch has finished; and the call ends only after
\* every listing fetch and every dispatched extraction has finished.
C15_PhaseBarrier ==
  /\ infoTask # <<>> => \A u \in DOMAIN listTask : Finished(listTask[u])
  /\ CallEnded =>
       /\ \A u \in DOMAIN listTask : Finished(listTask[u])
       /\ \A i \in DOMAIN infoTask : Finished(infoTask[i])

C15_Witness ==
  /\ pc = "done"
  /\ Len(urls) >= 2
  /\ Len(infoTask) >= 2
  /\ \A i \in DOMAIN infoTask : Finished(infoTask[i])

\* C18: every result extractJobs returns holds either no record or exactly
\* totalCount records.
C18_AllOrNothing ==
  ret.kind = "return" => Len(ret.records) \in {0, ret.totalCount}

\* Two entries found, one extracted and one failed, and nothing returned.
C18_Witness ==
  /\ ret.kind = "return"
  /\ ret.totalCount = 2
  /\ ret.records = <<>>
  /\ \E i, j \in DOMAIN infoTask : infoTask[i] = "done" /\ infoTask[j] = "raised"

\* <<u, k>> before <<v, l>>: by search-URL position, then by position in page
PositionBefore(a, b) == a[1] < b[1] \/ (a[1] = b[1] /\ a[2] < b[2])

\* C19: when records are returned, the i-th record is the record of the i-th
\* flattened entry, every entry of every page is among the flattened entries,
\* and these are ordered by URL position and then by position within the page.
C19_DeterministicOrder ==
  (ret.kind = "return" /\ ret.records # <<>>) =>
    /\ Len(ret.records) = Len(cards)
    /\ \A i \in DOMAIN cards :
         /\ ret.records[i] = job_data[i][1]
         /\ ret.records[i].jobURL = cards[i].id
    /\ \A i, j \in DOMAIN cards :
         i < j => PositionBefore(cards[i].id, cards[j].id)
    /\ \A u \in DOMAIN pages : \A k \in DOMAIN pages[u] :
         \E i \in DOMAIN cards : cards[i] = pages[u][k]

\* Records of entries of two different search URLs, returned in URL order.
C19_Witness ==
  /\ ret.kind = "return"
  /\ Len(ret.records) = 2
  /\ ret.records[1].jobURL = <<1, 1>>
  /\ ret.records[2].jobURL = <<2, 1>>

\* A GET that was sent and has not completed: the listing GET of a running
\* get_job_cards, the detail GET of a running get_job_info.
GetInFlight ==
  \/ \E u \in DOMAIN listTask : listTask[u] = "running"
  \/ \E i \in DOMAIN infoTask : infoTask[i] = "running"

\* C16: when every GET completes the call goes on until it has returned (a
\* state where no step is left is one where extractJobs returned), and while
\* a GET has not completed the call has not returned.
C16_ReturnsIffGetsComplete ==
  /\ ret.kind = "return" \/ ENABLED Next
  /\ GetInFlight => ret = NoReturn

\* The part of C16 the code keeps: the call goes on until it has ended, by a
\* return or by a raise, and does not end while a GET has not completed.
EndsIffGetsComplete ==
  /\ CallEnded \/ ENABLED Next
  /\ GetInFlight => ~CallEnded /\ ret = NoReturn

\* Every GET that is waited for completes, every task that can run does.
LiveSpec == Spec /\ WF_vars(Next)

EventuallyEnds == <>CallEnded

EventuallyReturns == <>(ret.kind = "return")

\* The filter documented for a time-window string: the parameter of a
\* recognized string, and no filter for any other.
DocumentedTimeFilter(time) ==
  CASE time = "past 24 hours" -> <<"&f_TPR=r86400">>
    [] time = "past week" -> <<"&f_TPR=r604800">>
    [] time = "past month" -> <<"&f_TPR=r2592000">>
    [] OTHER -> <<>>

TimeParamEnded == request.pc \in {"time_param", "raised", "extractJobs"}

\* C17: create_time_param returns the parameter of each recognized string and
\* an empty filter for every other string, and the request goes on: the URLs
\* built carry that filter and nothing else between location and position.
C17_UnrecognizedTimeIsEmptyFilter ==
  /\ TimeParamEnded =>
       /\ request.TPeriod.kind = "return"
       /\ request.TPeriod.value = DocumentedTimeFilter(request.time_period)
  /\ request.pc = "extractJobs" =>
       \A t \in DOMAIN request.urls :
         request.urls[t] =
           SearchUrl(PercentEncode(request.titles[t]),
                     PercentEncode(request.location),
                     DocumentedTimeFilter(request.time_period))

\* The part of C17 the code keeps: the four recognized strings.
RecognizedTimeMapped ==
  (TimeParamEnded /\ request.time_period \in RecognizedTimes) =>
    /\ request.TPeriod.kind = "return"
    /\ request.TPeriod.value = DocumentedTimeFilter(request.time_period)

\* No " " and no "," is left in a URL that was built.
UrlsEncoded ==
  \A t \in DOMAIN request.urls :
    \A k \in DOMAIN request.urls[t] : request.urls[t][k] \notin {" ", ","}

====
